---- MODULE Spec2Model ----
(***************************************************************************)
(* A model of tickgrinder's SimBroker: the event-ordered simulation loop   *)
(* (backtester/src/sim_broker/mod.rs) and the Ledger / Position objects    *)
(* (util/src/trading/objects.rs).                                          *)
(*                                                                         *)
(* helpers.rs and client.rs (SimulationQueue, Symbols, Symbol, Accounts,   *)
(* SimBrokerSettings) are not among the sources; the definitions that      *)
(* stand for them follow the written specification and are marked so.      *)
(***************************************************************************)
EXTENDS Integers, Sequences, FiniteSets, TLC

(***************************************************************************)
(* Bounds of the model.                                                    *)
(***************************************************************************)
MaxActions == 2      \* actions the client submits in a run
MaxTicks   == 2      \* ticks a tickstream yields
MaxTime    == 2      \* largest tick timestamp

(***************************************************************************)
(* Option<T>: None is the empty sequence, Some(x) a one-element sequence.  *)
(***************************************************************************)
None == << >>
Some(x) == << x >>
IsSome(o) == o # << >>
Unwrap(o) == o[1]

(***************************************************************************)
(* HashMap<K, V> as a function; insert and remove.                         *)
(***************************************************************************)
EmptyMap == << >>
MapInsert(m, k, v) == [x \in (DOMAIN m) \cup {k} |-> IF x = k THEN v ELSE m[x]]
MapRemove(m, k) == [x \in (DOMAIN m) \ {k} |-> m[x]]

RECURSIVE SumOver(_, _)
SumOver(S, f) ==
    IF S = {} THEN 0
    ELSE LET x == CHOOSE y \in S : TRUE IN f[x] + SumOver(S \ {x}, f)

\* every ordering of a finite set (a HashMap iterates in arbitrary order)
Orderings(S) ==
    {f \in [1..Cardinality(S) -> S] : \A i, j \in 1..Cardinality(S) : i # j => f[i] # f[j]}

(***************************************************************************)
(* BrokerResult = Ok(BrokerMessage) | Err(BrokerError)                     *)
(***************************************************************************)
Ok(m) == [ok |-> TRUE, msg |-> m]
Err(e) == [ok |-> FALSE, err |-> e]

Pong(t) == [type |-> "Pong", time_received |-> t]
PositionOpened(id, pos, ts) ==
    [type |-> "PositionOpened", position_id |-> id, position |-> pos, timestamp |-> ts]
PositionClosed(id, pos, reason, ts) ==
    [type |-> "PositionClosed", position_id |-> id, position |-> pos,
     reason |-> reason, timestamp |-> ts]
PositionModified(id, pos, ts) ==
    [type |-> "PositionModified", position_id |-> id, position |-> pos, timestamp |-> ts]

\* the outcome of a call: the value returned, the ledger left behind, or a panic
Ret(res, L) == [panic |-> FALSE, res |-> res, ledger |-> L]
Panic(L) == [panic |-> TRUE, res |-> None, ledger |-> L]

(***************************************************************************)
(* Ledger                                                                  *)
(***************************************************************************)
Ledger_new(starting_balance) ==
    [balance |-> starting_balance, pending_positions |-> EmptyMap,
     open_positions |-> EmptyMap, closed_positions |-> EmptyMap]

\* debits the margin and then reaches unimplemented!()
place_order(L, pos, margin_requirement) ==
    IF margin_requirement > L.balance
    THEN Ret(Err("InsufficientBuyingPower"), L)
    ELSE Panic([L EXCEPT !.balance = @ - margin_requirement])

\* mutation: the position is recorded with its execution price as exit price
open_position_SetsExit(L, uuid, pos) ==
    IF ~IsSome(pos.execution_time) THEN Panic(L)
    ELSE IF ~IsSome(pos.execution_price) THEN Ret(Err("Message"), L)
    ELSE Ret(Ok(PositionOpened(uuid, pos, Unwrap(pos.execution_time))),
             [L EXCEPT !.open_positions =
                         MapInsert(@, uuid, [pos EXCEPT !.exit_price = pos.execution_price])])

open_position(L, uuid, pos) ==
    IF ~IsSome(pos.execution_time) THEN Panic(L)
    ELSE IF ~IsSome(pos.execution_price) THEN Ret(Err("Message"), L)
    ELSE Ret(Ok(PositionOpened(uuid, pos, Unwrap(pos.execution_time))),
             [L EXCEPT !.open_positions = MapInsert(@, uuid, pos)])

close_position(L, uuid, position_value, timestamp, reason) ==
    IF uuid \notin DOMAIN L.open_positions
    THEN Ret(Err("NoSuchPosition"), L)
    ELSE Ret(Ok(PositionClosed(uuid, L.open_positions[uuid], reason, timestamp)),
             [L EXCEPT !.open_positions = MapRemove(@, uuid),
                       !.balance = @ + position_value])

\* the position is taken out of open_positions first; only the last branch
\* puts it back
resize_position(L, uuid, units, modification_cost, timestamp) ==
    IF uuid \notin DOMAIN L.open_positions THEN Panic(L)
    ELSE
      LET pos == L.open_positions[uuid]
          L1 == [L EXCEPT !.open_positions = MapRemove(@, uuid)]
          unit_diff == units + pos.size
      IN IF unit_diff < 0 THEN Ret(Err("InvalidModificationAmount"), L1)
         ELSE IF unit_diff = 0
           THEN close_position(L1, uuid, modification_cost, timestamp, "MarketClose")
         ELSE IF L1.balance < modification_cost
           THEN Ret(Err("InsufficientBuyingPower"), L1)
         ELSE LET pos2 == [pos EXCEPT !.size = pos.size + units]
              IN Ret(Ok(PositionModified(uuid, pos2, timestamp)),
                     [L1 EXCEPT !.balance = @ - modification_cost,
                                !.open_positions = MapInsert(@, uuid, pos2)])

\* mutation: the modified position is rebuilt as a fresh, unexecuted one
modify_position_ClearsExecution(L, pos_uuid, sl, tp, timestamp) ==
    IF pos_uuid \in DOMAIN L.open_positions
    THEN LET pos2 == [L.open_positions[pos_uuid] EXCEPT !.stop = sl, !.take_profit = tp,
                                                        !.execution_time = None]
         IN Ret(Ok(PositionModified(pos_uuid, pos2, timestamp)),
                [L EXCEPT !.open_positions = MapInsert(@, pos_uuid, pos2)])
    ELSE Ret(Err("NoSuchPosition"), L)

modify_position(L, pos_uuid, sl, tp, timestamp) ==
    IF pos_uuid \in DOMAIN L.open_positions
    THEN LET pos2 == [L.open_positions[pos_uuid] EXCEPT !.stop = sl, !.take_profit = tp]
         IN Ret(Ok(PositionModified(pos_uuid, pos2, timestamp)),
                [L EXCEPT !.open_positions = MapInsert(@, pos_uuid, pos2)])
    ELSE Ret(Err("NoSuchPosition"), L)

(***************************************************************************)
(* Position                                                                *)
(***************************************************************************)
is_open_asserts(pos) == pos.execution_price = None /\ IsSome(pos.price)

is_open_satisfied(pos, bid, ask) ==
    IF pos.long /\ ask <= Unwrap(pos.price) THEN Some(ask)
    ELSE IF bid >= Unwrap(pos.price) THEN Some(bid)
    ELSE None

is_close_asserts(pos) == IsSome(pos.execution_price) /\ pos.exit_price = None

is_close_satisfied(pos, bid, ask) ==
    IF pos.long
    THEN IF IsSome(pos.stop) /\ Unwrap(pos.stop) >= bid
           THEN Some(<<bid, "StopLoss">>)
         ELSE IF IsSome(pos.take_profit) /\ Unwrap(pos.take_profit) <= ask
           THEN Some(<<ask, "StopLoss">>)
         ELSE None
    ELSE IF IsSome(pos.stop) /\ Unwrap(pos.stop) <= ask
           THEN Some(<<ask, "TakeProfit">>)
         ELSE IF IsSome(pos.take_profit) /\ Unwrap(pos.take_profit) >= bid
           THEN Some(<<bid, "TakeProfit">>)
         ELSE None

(***************************************************************************)
(* Settings, currencies and symbols.  A symbol name is the sequence of the *)
(* currency codes it is made of, so that format!("{}{}", a, b) is a \o b.  *)
(***************************************************************************)
settings ==
    [starting_balance |-> 2, ping_ns |-> 1, execution_delay_ns |-> 1,
     ping_delay_ns |-> 0, action_delay_ns |-> 1,
     fx |-> TRUE, fx_base_currency |-> <<"USD">>, fx_lot_size |-> 1]

get_delay(action) ==
    IF action.kind = "Ping" THEN settings.ping_delay_ns ELSE settings.action_delay_ns

SymX == <<"X">>
SymEURUSD == <<"EUR", "USD">>
SymZ == <<"Z">>

\* the key the account is stored under and the account's own uuid:
\* two calls of Uuid::new_v4()
AcctKey == "k1"
AcctUuid == "a1"

Symbols_contains(syms, name) == \E i \in DOMAIN syms : syms[i].name = name
Symbols_index(syms, name) == CHOOSE i \in DOMAIN syms : syms[i].name = name
Symbol_get_price(sym) == <<sym.price[1], sym.price[2], sym.decimal_precision>>

RECURSIVE Pow10(_)
Pow10(n) == IF n = 0 THEN 1 ELSE 10 * Pow10(n - 1)

convert_decimals(in, in_decimals, out_decimals) ==
    IF out_decimals >= in_decimals
    THEN in * Pow10(out_decimals - in_decimals)
    ELSE in \div Pow10(in_decimals - out_decimals)

\* values: [ok |-> TRUE, val |-> n] or [ok |-> FALSE, err |-> e]
ValOk(n) == [ok |-> TRUE, val |-> n]

get_price(syms, name) ==
    IF ~Symbols_contains(syms, name) THEN None
    ELSE Some(syms[Symbols_index(syms, name)].price)

get_base_rate(syms, symbol) ==
    IF ~settings.fx THEN Err("Message")
    ELSE
      LET base_pair == symbol \o settings.fx_base_currency
          base_pair_reverse == settings.fx_base_currency \o symbol
      IN IF ~Symbols_contains(syms, base_pair)
         THEN IF ~Symbols_contains(syms, base_pair_reverse)
              THEN Err("NoDataAvailable")
              ELSE LET p == Symbol_get_price(syms[Symbols_index(syms, base_pair_reverse)])
                   IN ValOk(convert_decimals(p[2], p[3], 10))
         ELSE LET p == Symbol_get_price(syms[Symbols_index(syms, base_pair)])
              IN ValOk(convert_decimals(p[2], p[3], 10))

\* pos.symbol is the name the position was opened with
get_position_value(syms, pos) ==
    IF pos.symbol_id \notin DOMAIN syms THEN Err("NoSuchSymbol")
    ELSE LET sym == syms[pos.symbol_id]
         IN IF sym.is_fx
            THEN LET base_rate == get_base_rate(syms, sym.name)
                 IN IF ~base_rate.ok THEN base_rate
                    ELSE ValOk(pos.size * base_rate.val * settings.fx_lot_size)
            ELSE ValOk(pos.size)

(***************************************************************************)
(* The action executor.  A call works on the accounts registry and the     *)
(* next fresh position uuid, and returns both with its result.             *)
(***************************************************************************)
ExecRet(res, accts, nid) == [panic |-> FALSE, res |-> res, accounts |-> accts, next_uuid |-> nid]
ExecPanic(accts, nid) == [panic |-> TRUE, res |-> None, accounts |-> accts, next_uuid |-> nid]

\* the outcome of a Ledger call carried back into the registry
OnLedger(accts, account_id, nid, r) ==
    LET accts2 == [accts EXCEPT ![account_id].ledger = r.ledger]
    IN IF r.panic THEN ExecPanic(accts2, nid) ELSE ExecRet(r.res, accts2, nid)

market_open(accts, syms, nid, account_id, symbol, long, size, stop, take_profit, timestamp) ==
    LET opt == get_price(syms, symbol)
    IN IF ~IsSome(opt) THEN ExecRet(Err("NoSuchSymbol"), accts, nid)
       ELSE
         LET bid == Unwrap(opt)[1]
             ask == Unwrap(opt)[2]
             cur_price == IF long THEN ask ELSE bid
             pos == [creation_time |-> timestamp,
                     symbol_id |-> Symbols_index(syms, symbol),
                     size |-> size,
                     price |-> Some(cur_price),
                     long |-> long,
                     stop |-> stop,
                     take_profit |-> take_profit,
                     execution_time |-> Some(timestamp + settings.execution_delay_ns),
                     execution_price |-> Some(cur_price),
                     exit_price |-> None,
                     exit_time |-> None]
             open_cost == get_position_value(syms, pos)
         IN IF ~open_cost.ok THEN ExecRet(Err(open_cost.err), accts, nid)
            ELSE IF account_id \in DOMAIN accts
              THEN OnLedger(accts, account_id, nid + 1,
                            open_position(accts[account_id].ledger, nid, pos))
            ELSE ExecRet(Err("NoSuchAccount"), accts, nid)

market_close(accts, syms, nid, account_id, position_uuid, size, now) ==
    IF account_id \notin DOMAIN accts THEN ExecRet(Err("NoSuchAccount"), accts, nid)
    ELSE
      LET L == accts[account_id].ledger
      IN IF position_uuid \notin DOMAIN L.open_positions
         THEN ExecRet(Err("NoSuchPosition"), accts, nid)
         ELSE
           LET pos == L.open_positions[position_uuid]
               pos_value == get_position_value(syms, pos)
           IN IF ~pos_value.ok THEN ExecRet(Err(pos_value.err), accts, nid)
              ELSE IF pos.size = 0 THEN ExecPanic(accts, nid)   \* division by zero
              ELSE LET modification_cost == (pos_value.val \div pos.size) * size
                   IN OnLedger(accts, account_id, nid,
                               resize_position(L, position_uuid, 0 - size,
                                               modification_cost, now))

SimBroker_modify_position(accts, nid, account_id, position_uuid, sl, tp, now) ==
    IF account_id \notin DOMAIN accts THEN ExecRet(Err("NoSuchAccount"), accts, nid)
    ELSE OnLedger(accts, account_id, nid,
                  modify_position(accts[account_id].ledger, position_uuid, sl, tp, now))

\* now is self.timestamp, timestamp the queue item's
exec_action(accts, syms, nid, cmd, timestamp, now) ==
    CASE cmd.kind = "Ping" -> ExecRet(Ok(Pong(timestamp)), accts, nid)
      [] cmd.kind = "MarketOrder" ->
           market_open(accts, syms, nid, cmd.account_uuid, cmd.symbol, cmd.long,
                       cmd.size, cmd.stop, cmd.take_profit, timestamp)
      [] cmd.kind = "MarketClose" ->
           market_close(accts, syms, nid, cmd.account_uuid, cmd.uuid, cmd.size, now)
      [] cmd.kind = "ModifyPosition" ->
           SimBroker_modify_position(accts, nid, cmd.account_uuid, cmd.uuid,
                                     cmd.stop, cmd.take_profit, now)
      [] cmd.kind \in {"LimitOrder", "LimitClose", "Disconnect"} -> ExecPanic(accts, nid)

(***************************************************************************)
(* tick_positions: the pending and open positions of an account examined   *)
(* after a price update.  The two Vecs of satisfied positions are built by *)
(* iterating a HashMap, so their order is any order.  A push made here is  *)
(* sent at once, stamped with the loop's timestamp.                        *)
(***************************************************************************)
SatisfiedPendings(L, bid, ask, symbol_ix) ==
    {id \in DOMAIN L.pending_positions :
        /\ L.pending_positions[id].symbol_id = symbol_ix
        /\ IsSome(is_open_satisfied(L.pending_positions[id], bid, ask))}

SatisfiedOpens(L, bid, ask, symbol_ix) ==
    {id \in DOMAIN L.open_positions :
        /\ L.open_positions[id].symbol_id = symbol_ix
        /\ IsSome(is_close_satisfied(L.open_positions[id], bid, ask))}

TickRet(panic, L, pushes) == [panic |-> panic, ledger |-> L, pushes |-> pushes]

RECURSIVE FillPendings(_, _, _, _, _, _, _)
FillPendings(L, pushes, order, i, bid, ask, now) ==
    IF i > Len(order) THEN TickRet(FALSE, L, pushes)
    ELSE
      LET pos_id == order[i]
          pos == [L.pending_positions[pos_id] EXCEPT
                    !.execution_time = Some(now),
                    !.execution_price = is_open_satisfied(L.pending_positions[pos_id], bid, ask)]
          L2 == [L EXCEPT !.pending_positions = MapRemove(@, pos_id),
                          !.open_positions = MapInsert(@, pos_id, pos)]
      IN FillPendings(L2, Append(pushes, Ok(PositionOpened(pos_id, pos, now))),
                      order, i + 1, bid, ask, now)

\* the position to close is looked up in pending_positions, and unwrapped
RECURSIVE CloseOpens(_, _, _, _, _, _, _)
CloseOpens(L, pushes, order, i, bid, ask, now) ==
    IF i > Len(order) THEN TickRet(FALSE, L, pushes)
    ELSE
      LET pos_id == order[i]
          closure == Unwrap(is_close_satisfied(L.open_positions[pos_id], bid, ask))
      IN IF pos_id \notin DOMAIN L.pending_positions THEN TickRet(TRUE, L, pushes)
         ELSE
           LET pos == [L.pending_positions[pos_id] EXCEPT
                         !.exit_time = Some(now), !.exit_price = Some(closure[1])]
               L2 == [L EXCEPT !.pending_positions = MapRemove(@, pos_id),
                               !.closed_positions = MapInsert(@, pos_id, pos)]
           IN CloseOpens(L2, Append(pushes, Ok(PositionClosed(pos_id, pos, closure[2], now))),
                         order, i + 1, bid, ask, now)

\* every outcome tick_positions can have on ledger L
tick_positions(L, bid, ask, symbol_ix, now) ==
    IF \E id \in DOMAIN L.pending_positions : ~is_open_asserts(L.pending_positions[id])
    THEN {TickRet(TRUE, L, << >>)}
    ELSE UNION {
      LET filled == FillPendings(L, << >>, fo, 1, bid, ask, now)
          L2 == filled.ledger
      IN IF \E id \in DOMAIN L2.open_positions : ~is_close_asserts(L2.open_positions[id])
         THEN {TickRet(TRUE, L2, filled.pushes)}
         ELSE {CloseOpens(L2, filled.pushes, co, 1, bid, ask, now) :
                  co \in Orderings(SatisfiedOpens(L2, bid, ask, symbol_ix))}
      : fo \in Orderings(SatisfiedPendings(L, bid, ask, symbol_ix))}

(***************************************************************************)
(* The state of a run.                                                     *)
(***************************************************************************)
VARIABLES
    pc,           \* where init_sim_loop stands
    item,         \* the queue item popped last
    pq,           \* SimBroker.pq
    timestamp,    \* SimBroker.timestamp
    symbols,      \* SimBroker.symbols
    accounts,     \* SimBroker.accounts
    next_uuid,    \* the next fresh position uuid
    client_chan,  \* the (action, complete) pairs sent and not yet taken by try_recv
    push_chan,    \* the message buffered in the push channel
    slots,        \* every reply slot the client has created, with its history
    delivered,    \* what has been handed to the client so far, in order
    last_exec     \* the last call of exec_action that returned

vars == <<pc, item, pq, timestamp, symbols, accounts, next_uuid, client_chan,
          push_chan, slots, delivered, last_exec>>

loopVars == <<pc, item, pq, timestamp, symbols, accounts, next_uuid, last_exec>>

(***************************************************************************)
(* Inputs: quotes, ticks, the positions a backtest seeds as pending, and   *)
(* the actions a client submits.                                           *)
(***************************************************************************)
Quotes == {<<2, 3>>, <<4, 5>>}

Tick(t, q) == [timestamp |-> t, bid |-> q[1], ask |-> q[2]]

FirstTicks == {Tick(t, q) : t \in 1..MaxTime, q \in Quotes}

Symbol_new_oneshot(name, price, is_fx, decimal_precision) ==
    [name |-> name, is_fx |-> is_fx, decimal_precision |-> decimal_precision,
     price |-> price, next_tick |-> None, yielded |-> 0]

\* register_tickstream: the first tick is taken from the stream and kept in next_tick
Symbol_new_from_stream(name, first_tick, is_fx, decimal_precision) ==
    [name |-> name, is_fx |-> is_fx, decimal_precision |-> decimal_precision,
     price |-> <<0, 0>>, next_tick |-> Some(first_tick), yielded |-> 1]

PendingPosition(symbol_ix, long, price, stop) ==
    [creation_time |-> 0, symbol_id |-> symbol_ix, size |-> 1, price |-> Some(price),
     long |-> long, stop |-> stop, take_profit |-> None, execution_time |-> None,
     execution_price |-> None, exit_price |-> None, exit_time |-> None]

SeededPending ==
    {EmptyMap,
     MapInsert(EmptyMap, 1, PendingPosition(1, TRUE, 3, None)),
     MapInsert(EmptyMap, 1, PendingPosition(1, TRUE, 3, Some(2))),
     MapInsert(EmptyMap, 1, PendingPosition(1, FALSE, 3, None)),
     MapInsert(EmptyMap, 1, PendingPosition(2, TRUE, 3, None))}

\* The set-ups of a run: X and EURUSD with a static price, or X fed by a
\* tickstream, with any of the seeded pending orders; or both fed by tickstreams.
Setups ==
    LET x0 == Symbol_new_oneshot(SymX, <<2, 3>>, FALSE, 0)
        e0 == Symbol_new_oneshot(SymEURUSD, <<2, 3>>, TRUE, 4)
        xs == {Symbol_new_from_stream(SymX, t, FALSE, 0) : t \in FirstTicks}
        es == {Symbol_new_from_stream(SymEURUSD, Tick(t, <<2, 3>>), TRUE, 4) :
                 t \in 1..MaxTime}
    IN {[symbols |-> <<x, e0>>, pending |-> p] : x \in {x0} \cup xs, p \in SeededPending}
       \cup {[symbols |-> <<Symbol_new_from_stream(SymX, Tick(1, <<2, 3>>), FALSE, 0), e>>,
              pending |-> EmptyMap] : e \in es}

MarketOrder(acct, symbol, long, size, stop, tp) ==
    [kind |-> "MarketOrder", account_uuid |-> acct, symbol |-> symbol, long |-> long,
     size |-> size, stop |-> stop, take_profit |-> tp]
MarketClose(acct, uuid, size) ==
    [kind |-> "MarketClose", account_uuid |-> acct, uuid |-> uuid, size |-> size]
ModifyPosition(acct, uuid, stop, tp) ==
    [kind |-> "ModifyPosition", account_uuid |-> acct, uuid |-> uuid, stop |-> stop,
     take_profit |-> tp]

\* actions that name no position
ClientActions ==
    {[kind |-> "Ping"], [kind |-> "Disconnect"],
     MarketOrder(AcctKey, SymX, TRUE, 2, None, None),
     MarketOrder(AcctKey, SymX, TRUE, 1, Some(2), None),
     MarketOrder(AcctUuid, SymX, TRUE, 1, None, None)}

\* actions on a position the client has been told of
PositionActions(ids) ==
    {MarketClose(AcctKey, id, size) : id \in ids, size \in 1..2}
    \cup {ModifyPosition(AcctKey, id, Some(2), None) : id \in ids}

(***************************************************************************)
(* SimulationQueue: a min-heap on the timestamp; items of one timestamp    *)
(* leave in the order they were pushed.                                    *)
(***************************************************************************)
QueueItem(ts, unit) == [timestamp |-> ts, unit |-> unit]
NewTick(ix, tick) == [kind |-> "NewTick", symbol_ix |-> ix, tick |-> tick]
ClientTick(ix, tick) == [kind |-> "ClientTick", symbol_ix |-> ix, tick |-> tick]
ActionComplete(slot, action) == [kind |-> "ActionComplete", slot |-> slot, action |-> action]
Response(slot, res) == [kind |-> "Response", slot |-> slot, res |-> res]
NoItem == QueueItem(0, [kind |-> "None"])

\* mutation: a new item goes in front of the items of its own timestamp
PqPush_BeforeTies(q, qi) ==
    LET n == Cardinality({i \in 1..Len(q) : q[i].timestamp < qi.timestamp})
    IN SubSeq(q, 1, n) \o <<qi>> \o SubSeq(q, n + 1, Len(q))

PqPush(q, qi) ==
    LET n == Cardinality({i \in 1..Len(q) : q[i].timestamp <= qi.timestamp})
    IN SubSeq(q, 1, n) \o <<qi>> \o SubSeq(q, n + 1, Len(q))

RECURSIVE PqInitFrom(_, _, _)
PqInitFrom(syms, i, q) ==
    IF i > Len(syms) THEN q
    ELSE IF IsSome(syms[i].next_tick)
      THEN PqInitFrom(syms, i + 1,
                      PqPush(q, QueueItem(Unwrap(syms[i].next_tick).timestamp,
                                          NewTick(i, Unwrap(syms[i].next_tick)))))
    ELSE PqInitFrom(syms, i + 1, q)

\* what the stream of a symbol can yield after tick: nothing more, or a later tick
NextTicks(sym, tick) ==
    {None} \cup
    (IF sym.yielded < MaxTicks
     THEN {Some(Tick(t, q)) : t \in tick.timestamp..MaxTime,
                              q \in IF sym.is_fx THEN {<<2, 3>>} ELSE Quotes}
     ELSE {})

(***************************************************************************)
(* SimBroker::new, register_tickstream / oneshot_price_set, pending orders *)
(* seeded in the account's ledger: the state when init_sim_loop is called. *)
(***************************************************************************)
Init ==
    /\ pc = "init"
    /\ item = NoItem
    /\ pq = << >>
    /\ timestamp = 0
    /\ \E setup \in Setups :
         /\ symbols = setup.symbols
         /\ accounts = [k \in {AcctKey} |->
                          [uuid |-> AcctUuid,
                           ledger |-> [Ledger_new(settings.starting_balance) EXCEPT
                                         !.pending_positions = setup.pending],
                           live |-> FALSE]]
         /\ next_uuid = Cardinality(DOMAIN setup.pending) + 1
    /\ client_chan = << >>
    /\ push_chan = None
    /\ slots = << >>
    /\ delivered = << >>
    /\ last_exec = None

(***************************************************************************)
(* The client and the relay thread.                                        *)
(***************************************************************************)
\* the position ids the client has seen in a reply or in a push
KnownIds ==
    {slots[k].result[1].msg.position_id :
        k \in {j \in 1..Len(slots) :
                 /\ IsSome(slots[j].result)
                 /\ slots[j].result[1].ok
                 /\ slots[j].result[1].msg.type = "PositionOpened"}}
    \cup {delivered[i].position_id :
            i \in {j \in 1..Len(delivered) : delivered[j].kind = "TickPush"}}

\* The delivery timestamp of the last item the client has received: a tick the
\* loop is still blocked sending, and a message still in the push channel, have
\* not been received.
ClientTime ==
    LET pushes == {i \in 1..Len(delivered) : delivered[i].kind = "Push"}
        received == {i \in 1..Len(delivered) :
                       /\ ~(pc = "send_client" /\ i = Len(delivered))
                       /\ ~(IsSome(push_chan) /\ i \in pushes
                            /\ \A j \in pushes : j <= i)}
    IN IF received = {} THEN 0
       ELSE delivered[CHOOSE i \in received : \A j \in received : j <= i].ts

ClientSubmit ==
    /\ Len(slots) < MaxActions
    /\ \E a \in ClientActions \cup PositionActions(KnownIds) :
         /\ slots' = Append(slots, [action |-> a, submitted_at |-> ClientTime,
                                    drained_at |-> None, fulfilled |-> 0,
                                    result |-> None, delivered_at |-> None])
         /\ client_chan' = Append(client_chan, [action |-> a, slot |-> Len(slots) + 1])
    /\ UNCHANGED <<loopVars, push_chan, delivered>>

ClientConsumeTick ==
    /\ pc = "send_client"
    /\ pc' = "pop"
    /\ UNCHANGED <<item, pq, timestamp, symbols, accounts, next_uuid, last_exec,
                   client_chan, push_chan, slots, delivered>>

ClientConsumePush ==
    /\ IsSome(push_chan)
    /\ push_chan' = None
    /\ UNCHANGED <<loopVars, client_chan, slots, delivered>>

(***************************************************************************)
(* init_sim_loop                                                           *)
(***************************************************************************)
InitQueue ==
    /\ pc = "init"
    /\ pq' = PqInitFrom(symbols, 1, << >>)
    /\ pc' = "pop"
    /\ UNCHANGED <<item, timestamp, symbols, accounts, next_uuid, last_exec,
                   client_chan, push_chan, slots, delivered>>

Pop ==
    /\ pc = "pop"
    /\ pq # << >>
    /\ item' = Head(pq)
    /\ pq' = Tail(pq)
    /\ timestamp' = Head(pq).timestamp
    /\ pc' = "drain"
    /\ UNCHANGED <<symbols, accounts, next_uuid, last_exec,
                   client_chan, push_chan, slots, delivered>>

Terminate ==
    /\ pc = "pop"
    /\ pq = << >>
    /\ pc' = "done"
    /\ UNCHANGED <<item, pq, timestamp, symbols, accounts, next_uuid, last_exec,
                   client_chan, push_chan, slots, delivered>>

\* mutation: the delay alone, self.timestamp left out
ActionCompleteTime_NoNow(now, execution_delay) == execution_delay

ActionCompleteTime(now, execution_delay) == now + execution_delay

\* One round of the inner while: try_recv returned a message.  The relay thread
\* of SimBroker::new moves the client's messages one at a time into a rendezvous
\* channel, so try_recv finds the oldest message if the thread has got that far,
\* and nothing if it has not: the dispatch below never waits for client_chan.
DrainRecv ==
    /\ pc = "drain"
    /\ client_chan # << >>
    /\ LET m == Head(client_chan)
           qi == QueueItem(ActionCompleteTime(timestamp, get_delay(m.action)),
                           ActionComplete(m.slot, m.action))
       IN /\ pq' = PqPush(pq, qi)
          /\ slots' = [slots EXCEPT ![m.slot].drained_at = Some(timestamp)]
    /\ client_chan' = Tail(client_chan)
    /\ UNCHANGED <<pc, item, timestamp, symbols, accounts, next_uuid, last_exec,
                   push_chan, delivered>>

ClientTickTime(tick) == tick.timestamp + settings.ping_ns

TickPushRecord(res, now, tick) ==
    [kind |-> "TickPush", ts |-> now, tick_ts |-> tick.timestamp, type |-> res.msg.type,
     position_id |-> res.msg.position_id,
     reason |-> IF res.msg.type = "PositionClosed" THEN res.msg.reason ELSE "None"]

\* try_recv returned no message, and the item popped is a NewTick
DispatchNewTick ==
    /\ pc = "drain"
    /\ item.unit.kind = "NewTick"
    /\ LET symbol_ix == item.unit.symbol_ix
           tick == item.unit.tick
           syms1 == [symbols EXCEPT ![symbol_ix].price = <<tick.bid, tick.ask>>]
           pq1 == PqPush(pq, QueueItem(ClientTickTime(tick), ClientTick(symbol_ix, tick)))
       IN \E out \in tick_positions(accounts[AcctKey].ledger, syms1[symbol_ix].price[1],
                                    syms1[symbol_ix].price[2], symbol_ix, timestamp) :
            /\ accounts' = [accounts EXCEPT ![AcctKey].ledger = out.ledger]
            /\ delivered' = delivered \o
                 [i \in 1..Len(out.pushes) |-> TickPushRecord(out.pushes[i], timestamp, tick)]
            /\ IF out.panic
               THEN /\ pc' = "panicked"
                    /\ pq' = pq1
                    /\ symbols' = syms1
               ELSE \E nt \in NextTicks(symbols[symbol_ix], tick) :
                      /\ pc' = "pop"
                      /\ pq' = IF IsSome(nt)
                               THEN PqPush(pq1, QueueItem(Unwrap(nt).timestamp,
                                                          NewTick(symbol_ix, Unwrap(nt))))
                               ELSE pq1
                      /\ symbols' = IF IsSome(nt)
                                    THEN [syms1 EXCEPT ![symbol_ix].yielded = @ + 1]
                                    ELSE syms1
    /\ UNCHANGED <<item, timestamp, next_uuid, last_exec, client_chan, push_chan, slots>>

\* send_client blocks until the client has taken the tick
DispatchClientTick ==
    /\ pc = "drain"
    /\ item.unit.kind = "ClientTick"
    /\ pc' = "send_client"
    /\ delivered' = Append(delivered, [kind |-> "ClientTick", ts |-> timestamp,
                                       tick_ts |-> item.unit.tick.timestamp,
                                       symbol_ix |-> item.unit.symbol_ix])
    /\ UNCHANGED <<item, pq, timestamp, symbols, accounts, next_uuid, last_exec,
                   client_chan, push_chan, slots>>

\* mutation: the response is queued without the network delay
ResponseTime_NoPing(item_timestamp) == item_timestamp

ResponseTime(item_timestamp) == item_timestamp + settings.ping_ns

DispatchActionComplete ==
    /\ pc = "drain"
    /\ item.unit.kind = "ActionComplete"
    /\ LET r == exec_action(accounts, symbols, next_uuid, item.unit.action,
                            item.timestamp, timestamp)
       IN /\ accounts' = r.accounts
          /\ next_uuid' = r.next_uuid
          /\ IF r.panic
             THEN /\ pc' = "panicked"
                  /\ UNCHANGED <<pq, last_exec>>
             ELSE /\ pc' = "pop"
                  /\ pq' = PqPush(pq, QueueItem(ResponseTime(item.timestamp),
                                                Response(item.unit.slot, r.res)))
                  /\ last_exec' = Some([slot |-> item.unit.slot, action |-> item.unit.action,
                                        timestamp |-> item.timestamp, now |-> timestamp,
                                        res |-> r.res])
    /\ UNCHANGED <<item, timestamp, symbols, client_chan, push_chan, slots,
                   delivered>>

\* future.complete(res): the reply slot is fulfilled; push_msg comes next
DispatchResponse ==
    /\ pc = "drain"
    /\ item.unit.kind = "Response"
    /\ slots' = [slots EXCEPT ![item.unit.slot] =
                   [@ EXCEPT !.fulfilled = @ + 1, !.result = Some(item.unit.res),
                             !.delivered_at = Some(timestamp)]]
    /\ delivered' = Append(delivered, [kind |-> "Response", ts |-> timestamp,
                                       slot |-> item.unit.slot])
    /\ pc' = "push_msg"
    /\ UNCHANGED <<item, pq, timestamp, symbols, accounts, next_uuid, last_exec,
                   client_chan, push_chan>>

\* sender.send(msg).wait() on channel(0): returns once the message is in the
\* channel, which has room for one message of this sender
PushMsg ==
    /\ pc = "push_msg"
    /\ push_chan = None
    /\ push_chan' = Some(item.unit.res)
    /\ delivered' = Append(delivered, [kind |-> "Push", ts |-> timestamp,
                                       slot |-> item.unit.slot])
    /\ pc' = "pop"
    /\ UNCHANGED <<item, pq, timestamp, symbols, accounts, next_uuid, last_exec,
                   client_chan, slots>>

Next ==
    \/ ClientSubmit
    \/ ClientConsumeTick
    \/ ClientConsumePush
    \/ InitQueue
    \/ Pop
    \/ Terminate
    \/ DrainRecv
    \/ DispatchNewTick
    \/ DispatchClientTick
    \/ DispatchActionComplete
    \/ DispatchResponse
    \/ PushMsg

Spec == Init /\ [][Next]_vars

\* The loop runs in a thread of its own and takes its next step whenever it
\* can; the client takes every tick and every pushed message offered to it.
LoopStep ==
    \/ InitQueue
    \/ Pop
    \/ Terminate
    \/ DrainRecv
    \/ DispatchNewTick
    \/ DispatchClientTick
    \/ DispatchActionComplete
    \/ DispatchResponse
    \/ PushMsg

FairSpec ==
    /\ Spec
    /\ WF_vars(LoopStep)
    /\ WF_vars(ClientConsumeTick)
    /\ WF_vars(ClientConsumePush)

(***************************************************************************)
(* Direct calls of the public methods of Position and Ledger: the inputs   *)
(* are drawn from small sets, last_exec records the call and what it       *)
(* returned, and the account's ledger is the one the Ledger methods work   *)
(* on.  A call that panics ends the run.                                   *)
(***************************************************************************)
MaxPrice == 3        \* largest price, bid, ask and margin of a direct call

Prices == 1..MaxPrice

OptPrices == {None} \cup {Some(p) : p \in Prices}

\* positions that are pending: entry price set, not executed
PendingInputs ==
    {[PendingPosition(1, long, price, None) EXCEPT !.stop = sl, !.take_profit = tp] :
        long \in BOOLEAN, price \in Prices, sl \in {None, Some(2)}, tp \in {None}}

\* positions that are open: executed, not closed
OpenInputs ==
    {[PendingPosition(1, long, 2, sl) EXCEPT !.take_profit = tp,
                                             !.execution_time = Some(0),
                                             !.execution_price = Some(2)] :
        long \in BOOLEAN, sl \in OptPrices, tp \in OptPrices}

CallInit ==
    /\ pc = "call"
    /\ item = NoItem
    /\ pq = << >>
    /\ timestamp = 0
    /\ symbols = <<Symbol_new_oneshot(SymX, <<2, 3>>, FALSE, 0),
                   Symbol_new_oneshot(SymEURUSD, <<2, 3>>, TRUE, 4)>>
    /\ accounts = [k \in {AcctKey} |->
                     [uuid |-> AcctUuid, ledger |-> Ledger_new(settings.starting_balance),
                      live |-> FALSE]]
    /\ next_uuid = 1
    /\ client_chan = << >>
    /\ push_chan = None
    /\ slots = << >>
    /\ delivered = << >>
    /\ last_exec = None

Call_is_open_satisfied ==
    /\ pc = "call"
    /\ \E pos \in PendingInputs, bid \in Prices, ask \in Prices :
         /\ last_exec' = Some([fn |-> "is_open_satisfied", pos |-> pos, bid |-> bid,
                               ask |-> ask, panic |-> ~is_open_asserts(pos),
                               ret |-> is_open_satisfied(pos, bid, ask)])
         /\ pc' = IF is_open_asserts(pos) THEN "call" ELSE "panicked"
    /\ UNCHANGED <<item, pq, timestamp, symbols, accounts, next_uuid, client_chan,
                   push_chan, slots, delivered>>

Call_is_close_satisfied ==
    /\ pc = "call"
    /\ \E pos \in OpenInputs, bid \in Prices, ask \in Prices :
         /\ last_exec' = Some([fn |-> "is_close_satisfied", pos |-> pos, bid |-> bid,
                               ask |-> ask, panic |-> ~is_close_asserts(pos),
                               ret |-> is_close_satisfied(pos, bid, ask)])
         /\ pc' = IF is_close_asserts(pos) THEN "call" ELSE "panicked"
    /\ UNCHANGED <<item, pq, timestamp, symbols, accounts, next_uuid, client_chan,
                   push_chan, slots, delivered>>

Call_place_order ==
    /\ pc = "call"
    /\ \E pos \in PendingInputs, margin_requirement \in 0..MaxPrice :
         LET r == place_order(accounts[AcctKey].ledger, pos, margin_requirement)
         IN /\ accounts' = [accounts EXCEPT ![AcctKey].ledger = r.ledger]
            /\ last_exec' = Some([fn |-> "place_order", pos |-> pos,
                                  margin_requirement |-> margin_requirement,
                                  before |-> accounts[AcctKey].ledger,
                                  panic |-> r.panic, ret |-> r.res])
            /\ pc' = IF r.panic THEN "panicked" ELSE "call"
    /\ UNCHANGED <<item, pq, timestamp, symbols, next_uuid, client_chan,
                   push_chan, slots, delivered>>

\* positions whose value is asked for: on X (not FX) or on EURUSD (FX)
ValueInputs ==
    {[PendingPosition(ix, TRUE, 2, None) EXCEPT !.size = size,
                                                 !.execution_time = Some(0),
                                                 !.execution_price = Some(2)] :
        ix \in 1..2, size \in Prices}

Call_get_position_value ==
    /\ pc = "call"
    /\ \E pos \in ValueInputs :
         last_exec' = Some([fn |-> "get_position_value", pos |-> pos, panic |-> FALSE,
                            ret |-> get_position_value(symbols, pos)])
    /\ UNCHANGED <<pc, item, pq, timestamp, symbols, accounts, next_uuid, client_chan,
                   push_chan, slots, delivered>>

CallNext ==
    \/ Call_is_open_satisfied
    \/ Call_is_close_satisfied
    \/ Call_place_order
    \/ Call_get_position_value

CallSpec == CallInit /\ [][CallNext]_vars

(***************************************************************************)
(* Properties                                                              *)
(***************************************************************************)
TheLedger == accounts[AcctKey].ledger

QueueItems == {pq[i] : i \in 1..Len(pq)} \cup (IF pc = "drain" THEN {item} ELSE {})

\* C1: the timestamps at which items are handed to the client (ticks, responses,
\* forwarded responses, pushes made by tick_positions) never decrease.
C1_MonotoneDelivery ==
    \A i \in 1..Len(delivered) : \A j \in 1..Len(delivered) :
        i < j => delivered[i].ts <= delivered[j].ts

\* a tick, a response and a tick-driven push have all been delivered, at more
\* than one timestamp
C1_Witness ==
    /\ \E i \in 1..Len(delivered) : delivered[i].kind = "ClientTick"
    /\ \E i \in 1..Len(delivered) : delivered[i].kind = "Response"
    /\ \E i \in 1..Len(delivered) : delivered[i].kind = "TickPush"
    /\ delivered[1].ts < delivered[Len(delivered)].ts

\* C9: an action drained at loop time T0 is executed at T0 + delay(A), and its
\* response is queued for T0 + delay(A) + ping_ns.
C9_DelayLaw ==
    /\ \A qi \in QueueItems :
         /\ qi.unit.kind = "ActionComplete" =>
              /\ IsSome(slots[qi.unit.slot].drained_at)
              /\ qi.timestamp = Unwrap(slots[qi.unit.slot].drained_at) + get_delay(qi.unit.action)
         /\ qi.unit.kind = "Response" =>
              qi.timestamp = Unwrap(slots[qi.unit.slot].drained_at)
                               + get_delay(slots[qi.unit.slot].action) + settings.ping_ns
    /\ (pc = "drain" /\ item.unit.kind = "ActionComplete") => timestamp = item.timestamp
    /\ IsSome(last_exec) =>
         LET e == Unwrap(last_exec)
             t == Unwrap(slots[e.slot].drained_at) + get_delay(e.action)
         IN e.timestamp = t /\ e.now = t

\* a MarketOrder drained after time 0 whose response is in the queue
C9_Witness ==
    \E i \in 1..Len(pq) :
        /\ pq[i].unit.kind = "Response"
        /\ slots[pq[i].unit.slot].action.kind = "MarketOrder"
        /\ Unwrap(slots[pq[i].unit.slot].drained_at) > 0

\* the step in which the ActionComplete item popped last is executed and returns
ExecStep == pc = "drain" /\ item.unit.kind = "ActionComplete" /\ pc' = "pop"

\* C2: every reply slot the client has created is fulfilled, and fulfilled once
\* only.  Nothing fulfils a slot after the loop has ended, so at the end every
\* slot has to be fulfilled already.
C2_EveryReplyOnce ==
    /\ \A k \in 1..Len(slots) : slots[k].fulfilled <= 1
    /\ pc = "done" => \A k \in 1..Len(slots) : slots[k].fulfilled = 1

\* C3: every position id that was ever put into the ledger is in exactly one of
\* the pending, open and closed maps.
C3_ExactlyOneMap ==
    \A id \in 1..(next_uuid - 1) :
        Cardinality({m \in {"pending", "open", "closed"} :
            id \in DOMAIN (CASE m = "pending" -> TheLedger.pending_positions
                             [] m = "open" -> TheLedger.open_positions
                             [] m = "closed" -> TheLedger.closed_positions)}) = 1

\* C4: an action that returns an Err leaves the accounts (balance and the three
\* maps) as they were.
C4_ErrLeavesLedger ==
    [][(ExecStep /\ ~Unwrap(last_exec').res.ok) => accounts' = accounts]_vars

PositionValue(syms, pos) ==
    LET v == get_position_value(syms, pos) IN IF v.ok THEN v.val ELSE 0

\* balance + the value of the open positions + the margin of the pending ones;
\* the ledger records no margin, and a pending position is taken to hold its value
Holdings(L, syms) ==
    L.balance
    + SumOver(DOMAIN L.open_positions,
              [id \in DOMAIN L.open_positions |-> PositionValue(syms, L.open_positions[id])])
    + SumOver(DOMAIN L.pending_positions,
              [id \in DOMAIN L.pending_positions |->
                  PositionValue(syms, L.pending_positions[id])])

\* C5: a step that takes no position out of the open map (anything but a close)
\* leaves balance + open value + pending margin unchanged.
C5_Conservation ==
    [][(DOMAIN TheLedger.open_positions \subseteq DOMAIN TheLedger'.open_positions)
          => Holdings(TheLedger', symbols') = Holdings(TheLedger, symbols)]_vars

\* C6: a MarketOrder that succeeds takes the open cost (the position's value)
\* off the balance and leaves the new position in the open map.
C6_MarketOrderDebit ==
    [][(ExecStep /\ item.unit.action.kind = "MarketOrder" /\ Unwrap(last_exec').res.ok)
          => LET m == Unwrap(last_exec').res.msg
             IN /\ m.position_id \in DOMAIN TheLedger'.open_positions
                /\ TheLedger'.balance
                     = TheLedger.balance - PositionValue(symbols, m.position)]_vars

\* C7: a MarketClose of the whole of an open position returns PositionClosed with
\* reason MarketClose, moves the position from open to closed and credits the
\* balance with the value passed in.
C7_FullClose ==
    [][(/\ ExecStep
        /\ item.unit.action.kind = "MarketClose"
        /\ item.unit.action.account_uuid \in DOMAIN accounts
        /\ item.unit.action.uuid \in DOMAIN TheLedger.open_positions
        /\ item.unit.action.size = TheLedger.open_positions[item.unit.action.uuid].size)
          => LET id == item.unit.action.uuid
                 pos == TheLedger.open_positions[id]
                 cost == (PositionValue(symbols, pos) \div pos.size) * item.unit.action.size
                 res == Unwrap(last_exec').res
             IN /\ res.ok
                /\ res.msg.type = "PositionClosed"
                /\ res.msg.reason = "MarketClose"
                /\ id \notin DOMAIN TheLedger'.open_positions
                /\ id \in DOMAIN TheLedger'.closed_positions
                /\ TheLedger'.balance = TheLedger.balance + cost]_vars

\* C8: a Ping sent at client time T is answered Pong{T + ping_ns + delay(Ping)},
\* delivered at T + 2*ping_ns + delay(Ping); no response is delivered before
\* T + 2*ping_ns + delay(A).
C8_RoundTrip ==
    \A k \in 1..Len(slots) :
        slots[k].fulfilled > 0 =>
            LET T == slots[k].submitted_at
                d == get_delay(slots[k].action)
            IN /\ Unwrap(slots[k].delivered_at) >= T + 2 * settings.ping_ns + d
               /\ slots[k].action.kind = "Ping" =>
                    /\ Unwrap(slots[k].result) = Ok(Pong(T + settings.ping_ns + d))
                    /\ Unwrap(slots[k].delivered_at) = T + 2 * settings.ping_ns + d

\* C10: a push made for a NewTick processed at T reaches the client at
\* T + ping_ns, after every ClientTick stamped earlier than that.
C10_PushAfterPing ==
    \A i \in 1..Len(delivered) :
        delivered[i].kind = "TickPush" =>
            /\ delivered[i].ts = delivered[i].tick_ts + settings.ping_ns
            /\ \A qi \in QueueItems :
                 qi.unit.kind = "ClientTick" =>
                    qi.timestamp >= delivered[i].tick_ts + settings.ping_ns

\* the record of the direct call made last
LastCall == Unwrap(last_exec)

\* the fill rule: a long order fills at the ask once the ask is at or under the
\* entry price, a short order at the bid once the bid is at or over it
OpenFillRule(pos, bid, ask) ==
    IF pos.long
    THEN IF ask <= Unwrap(pos.price) THEN Some(ask) ELSE None
    ELSE IF bid >= Unwrap(pos.price) THEN Some(bid) ELSE None

\* C11: is_open_satisfied returns Some(ask) exactly for a long position with
\* ask <= price, Some(bid) exactly for a short position with bid >= price, and
\* None otherwise; a long position is never filled at the bid.
C11_OpenFill ==
    (IsSome(last_exec) /\ LastCall.fn = "is_open_satisfied") =>
        /\ ~LastCall.panic
        /\ LastCall.ret = OpenFillRule(LastCall.pos, LastCall.bid, LastCall.ask)

\* the close rule: the stop is looked at first, then the take-profit
CloseRule(pos, bid, ask) ==
    IF pos.long
    THEN IF IsSome(pos.stop) /\ bid <= Unwrap(pos.stop) THEN Some(<<bid, "StopLoss">>)
         ELSE IF IsSome(pos.take_profit) /\ ask >= Unwrap(pos.take_profit)
           THEN Some(<<ask, "TakeProfit">>)
         ELSE None
    ELSE IF IsSome(pos.stop) /\ ask >= Unwrap(pos.stop) THEN Some(<<ask, "StopLoss">>)
         ELSE IF IsSome(pos.take_profit) /\ bid <= Unwrap(pos.take_profit)
           THEN Some(<<bid, "TakeProfit">>)
         ELSE None

\* C12: is_close_satisfied returns the stop's price and StopLoss when the stop
\* is triggered, else the take-profit's price and TakeProfit when that is
\* triggered, else None; the stop wins when both are triggered.
C12_CloseTrigger ==
    (IsSome(last_exec) /\ LastCall.fn = "is_close_satisfied") =>
        /\ ~LastCall.panic
        /\ LastCall.ret = CloseRule(LastCall.pos, LastCall.bid, LastCall.ask)

\* C19: place_order with margin > balance returns InsufficientBuyingPower and
\* leaves the ledger as it was; otherwise it returns a success, takes the
\* margin off the balance and the position is in pending.
C19_PlaceOrder ==
    (IsSome(last_exec) /\ LastCall.fn = "place_order") =>
        LET before == LastCall.before
            after == accounts[AcctKey].ledger
        IN IF LastCall.margin_requirement > before.balance
           THEN /\ ~LastCall.panic
                /\ LastCall.ret = Err("InsufficientBuyingPower")
                /\ after = before
           ELSE /\ ~LastCall.panic
                /\ LastCall.ret.ok
                /\ after.balance = before.balance - LastCall.margin_requirement
                /\ \E id \in DOMAIN after.pending_positions :
                      /\ id \notin DOMAIN before.pending_positions
                      /\ after.pending_positions[id] = LastCall.pos
                /\ after.open_positions = before.open_positions
                /\ after.closed_positions = before.closed_positions

\* the step in which the NewTick item popped last is dispatched
TickStep == pc = "drain" /\ item.unit.kind = "NewTick" /\ pc' # "drain"

\* the pushes handed to the client in the step
NewDeliveries == {delivered'[i] : i \in (Len(delivered) + 1)..Len(delivered')}

\* C13: when a NewTick for a symbol is processed, every open position on that
\* symbol whose stop or take-profit the tick triggers leaves open and is in
\* closed with exit_time = now and exit_price = the trigger price, a
\* PositionClosed push with the reason is made, and the loop goes on.
C13_TickCloses ==
    [][TickStep =>
         \A id \in DOMAIN TheLedger.open_positions :
            LET pos == TheLedger.open_positions[id]
                closure == CloseRule(pos, item.unit.tick.bid, item.unit.tick.ask)
            IN (pos.symbol_id = item.unit.symbol_ix /\ IsSome(closure)) =>
                 /\ pc' = "pop"
                 /\ id \notin DOMAIN TheLedger'.open_positions
                 /\ id \in DOMAIN TheLedger'.closed_positions
                 /\ TheLedger'.closed_positions[id].exit_time = Some(timestamp)
                 /\ TheLedger'.closed_positions[id].exit_price = Some(Unwrap(closure)[1])
                 /\ \E d \in NewDeliveries :
                       /\ d.kind = "TickPush"
                       /\ d.type = "PositionClosed"
                       /\ d.position_id = id
                       /\ d.reason = Unwrap(closure)[2]]_vars

\* C14: when a NewTick for a symbol is processed, every pending position on
\* that symbol that the tick satisfies leaves pending and is in open with
\* execution_time = now and execution_price = the fill price, and a
\* PositionOpened push is made; every other pending position stays as it was.
C14_TickFills ==
    [][TickStep =>
         \A id \in DOMAIN TheLedger.pending_positions :
            LET pos == TheLedger.pending_positions[id]
                fill == OpenFillRule(pos, item.unit.tick.bid, item.unit.tick.ask)
            IN IF pos.symbol_id = item.unit.symbol_ix /\ IsSome(fill)
               THEN /\ id \notin DOMAIN TheLedger'.pending_positions
                    /\ id \in DOMAIN TheLedger'.open_positions
                    /\ TheLedger'.open_positions[id].execution_time = Some(timestamp)
                    /\ TheLedger'.open_positions[id].execution_price = fill
                    /\ \E d \in NewDeliveries :
                          /\ d.kind = "TickPush"
                          /\ d.type = "PositionOpened"
                          /\ d.position_id = id
               ELSE /\ id \in DOMAIN TheLedger'.pending_positions
                    /\ TheLedger'.pending_positions[id] = pos]_vars

\* the positions a ledger holds under an id, whichever map they are in
PositionsOf(L, id) ==
    {L.pending_positions[i] : i \in {id} \cap DOMAIN L.pending_positions}
    \cup {L.open_positions[i] : i \in {id} \cap DOMAIN L.open_positions}
    \cup {L.closed_positions[i] : i \in {id} \cap DOMAIN L.closed_positions}

LedgerIds(L) ==
    DOMAIN L.pending_positions \cup DOMAIN L.open_positions \cup DOMAIN L.closed_positions

\* C15: position state never goes back.  In every step: an execution_time that
\* is set stays set; nothing enters pending (so a position that has been in
\* open, which is never in pending at the same time, does not return to it);
\* a position whose exit_time is set keeps it and is not in open afterwards.
C15_NoRegress ==
    [][/\ \A id \in LedgerIds(TheLedger) :
            (\E pos \in PositionsOf(TheLedger, id) : IsSome(pos.execution_time))
               => \A pos \in PositionsOf(TheLedger', id) : IsSome(pos.execution_time)
       /\ DOMAIN TheLedger'.pending_positions \subseteq DOMAIN TheLedger.pending_positions
       /\ DOMAIN TheLedger'.pending_positions \cap DOMAIN TheLedger'.open_positions = {}
       /\ \A id \in LedgerIds(TheLedger) :
            (\E pos \in PositionsOf(TheLedger, id) : IsSome(pos.exit_time))
               => /\ id \notin DOMAIN TheLedger'.open_positions
                  /\ \E pos \in PositionsOf(TheLedger', id) : IsSome(pos.exit_time)]_vars

\* a pending order that a tick has filled and a ModifyPosition has then changed
C15_Witness ==
    /\ IsSome(last_exec)
    /\ Unwrap(last_exec).res.ok
    /\ Unwrap(last_exec).res.msg.type = "PositionModified"
    /\ \E id \in DOMAIN TheLedger.open_positions :
          /\ id = Unwrap(last_exec).res.msg.position_id
          /\ TheLedger.open_positions[id].creation_time = 0
          /\ IsSome(TheLedger.open_positions[id].execution_time)
          /\ TheLedger.open_positions[id].stop = Some(2)

\* the step that pops an item
PopStep == pc = "pop" /\ pc' = "drain"

\* q without the items at the positions K
Without(q, K) ==
    LET kept == (1..Len(q)) \ K
    IN [i \in 1..Cardinality(kept) |->
          q[CHOOSE p \in kept : Cardinality({r \in kept : r <= p}) = i]]

FirstTickTimes == {Unwrap(symbols[i].next_tick).timestamp :
                     i \in {j \in DOMAIN symbols : IsSome(symbols[j].next_tick)}}

FirstPopTime == CHOOSE t \in FirstTickTimes : \A u \in FirstTickTimes : t <= u

\* C17: replay is deterministic: with the tickstreams and the settings fixed,
\* what a client is handed depends on what it does, not on how the threads
\* interleave.  For the client that sends a Ping before it has received
\* anything: the Pong it is handed and the time it is handed it are those of
\* the run in which the Ping is taken in at the first item popped, in every run.
C17_ReplayDeterministic ==
    \A k \in 1..Len(slots) :
        (/\ slots[k].action.kind = "Ping"
         /\ slots[k].submitted_at = 0
         /\ \A j \in 1..(k - 1) : slots[j].action.kind = "Ping" /\ slots[j].submitted_at = 0
         /\ slots[k].fulfilled > 0)
          => /\ Unwrap(slots[k].result)
                  = Ok(Pong(FirstPopTime + get_delay(slots[k].action)))
             /\ Unwrap(slots[k].delivered_at)
                  = FirstPopTime + get_delay(slots[k].action) + settings.ping_ns

\* C18: executing a LimitOrder, a LimitClose or a Disconnect returns an
\* Unimplemented error, which is queued as the action's response like any other
\* result, and the loop goes on popping.
C18_Unimplemented ==
    [][(/\ pc = "drain"
        /\ item.unit.kind = "ActionComplete"
        /\ item.unit.action.kind \in {"LimitOrder", "LimitClose", "Disconnect"}
        /\ pc' # "drain")
          => /\ pc' = "pop"
             /\ \E i \in 1..Len(pq') :
                   pq'[i].unit = Response(item.unit.slot, Err("Unimplemented"))]_vars

\* C20: with finite tickstreams, finitely many actions and a client that takes
\* what it is offered, the loop comes to its end; it ends only with the queue
\* empty, and the timestamp of the terminal notice is that of the item popped
\* last, the largest of all items processed.
C20_Terminates ==
    /\ <>(pc = "done")
    /\ [](pc \in {"done", "panicked"} => pq = << >>)
    /\ [](pc = "done" =>
            /\ timestamp = item.timestamp
            /\ \A i \in 1..Len(delivered) : delivered[i].ts <= timestamp)

(***************************************************************************)
(* C21: in FX mode with base currency B, the value of a position on a      *)
(* registered FX pair named C followed by B is size * base_rate *          *)
(* fx_lot_size, base_rate being the ask of the pair C++B (or of B++C when  *)
(* C++B is not registered) normalised to 10 decimals; NoDataAvailable is   *)
(* returned only when neither pair is registered; the value of a position  *)
(* on a symbol that is not FX is its size.                                 *)
(***************************************************************************)
\* the rate the base currency is converted at for the currency c
BaseRateOf(syms, c) ==
    LET direct == c \o settings.fx_base_currency
        reverse == settings.fx_base_currency \o c
        pair == IF Symbols_contains(syms, direct) THEN direct ELSE reverse
    IN IF ~Symbols_contains(syms, pair) THEN Err("NoDataAvailable")
       ELSE LET sym == syms[Symbols_index(syms, pair)]
            IN ValOk(convert_decimals(sym.price[2], sym.decimal_precision, 10))

C21_PositionValue ==
    (last_exec # None /\ LastCall.fn = "get_position_value") =>
        LET pos == LastCall.pos
            sym == symbols[pos.symbol_id]
            rate == BaseRateOf(symbols, <<Head(sym.name)>>)
        IN IF sym.is_fx
           THEN /\ rate.ok
                /\ LastCall.ret = ValOk(pos.size * rate.val * settings.fx_lot_size)
           ELSE LastCall.ret = ValOk(pos.size)

\* the open positions on the ticked symbol whose stop or take-profit the
\* tick triggers
TriggeredOpens ==
    {id \in DOMAIN TheLedger.open_positions :
        /\ TheLedger.open_positions[id].symbol_id = item.unit.symbol_ix
        /\ IsSome(CloseRule(TheLedger.open_positions[id],
                            item.unit.tick.bid, item.unit.tick.ask))}

\* C22: a position closed automatically by a stop or take-profit trigger in
\* tick_positions changes the balance as a full-size MarketClose at the same
\* prices would: the balance is credited with the position's value, it is
\* not left unchanged.  (Stated for ticks that fill no pending position.)
C22_AutoCloseCredits ==
    [][(/\ TickStep
        /\ TriggeredOpens # {}
        /\ \A id \in DOMAIN TheLedger.pending_positions :
              TheLedger.pending_positions[id].symbol_id # item.unit.symbol_ix)
         => TheLedger'.balance =
              TheLedger.balance
              + SumOver(TriggeredOpens,
                        [id \in TriggeredOpens |->
                            PositionValue(symbols', TheLedger.open_positions[id])])]_vars

\* the items of a sequence of queue items that satisfy Test
CountItems(q, Test(_)) == Cardinality({i \in 1..Len(q) : Test(q[i])})

\* the NewTick items of symbol s that wait in the queue or are being processed
NewTicksPending(s) ==
    LET IsNewTick(it) == it.unit.kind = "NewTick" /\ it.unit.symbol_ix = s
    IN CountItems(pq, IsNewTick)
       + (IF pc = "drain" /\ IsNewTick(item) THEN 1 ELSE 0)

\* the ticks of symbol s the client has been sent
ClientTicksOf(s) ==
    {i \in 1..Len(delivered) :
        delivered[i].kind = "ClientTick" /\ delivered[i].symbol_ix = s}

\* processing NewTick(s, t): the price of s becomes (t.bid, t.ask), no other
\* price changes, and exactly one ClientTick(s, t) is queued, at
\* t.timestamp + ping_ns
TickStepRule ==
    TickStep =>
      LET s == item.unit.symbol_ix
          t == item.unit.tick
          IsClientTick(it) == it.unit.kind = "ClientTick"
          IsThisTick(it) == it = QueueItem(t.timestamp + settings.ping_ns, ClientTick(s, t))
      IN /\ symbols'[s].price = <<t.bid, t.ask>>
         /\ \A o \in DOMAIN symbols : o # s => symbols'[o].price = symbols[o].price
         /\ CountItems(pq', IsClientTick) = CountItems(pq, IsClientTick) + 1
         /\ CountItems(pq', IsThisTick) = CountItems(pq, IsThisTick) + 1

\* ticks are taken from a stream one at a time, and sent in stream order
TicksInOrder ==
    \A s \in DOMAIN symbols :
       /\ NewTicksPending(s) <= 1
       /\ Cardinality(ClientTicksOf(s)) <= symbols[s].yielded
       /\ \A i, j \in ClientTicksOf(s) : i < j => delivered[i].tick_ts <= delivered[j].tick_ts

\* when the loop has stopped, every tick taken from a stream has been sent
AllTicksSent ==
    pc \in {"done", "panicked"} =>
       \A s \in DOMAIN symbols : Cardinality(ClientTicksOf(s)) = symbols[s].yielded

\* C23: for every registered symbol s, each tick of the stream of s (the
\* first one, primed by register_tickstream, included) is dispatched as
\* NewTick(s, t) exactly once and in stream order; processing it sets the
\* price of s to (t.bid, t.ask), leaves the other prices unchanged and queues
\* exactly one ClientTick(s, t) at t.timestamp + ping_ns, so that the client
\* receives every tick exactly once.
C23_EveryTickOnce == [][TickStepRule]_vars /\ []TicksInOrder /\ []AllTicksSent

\* the loop passes from draining the inbox to having dispatched the item
DispatchStep == pc = "drain" /\ pc' # "drain"

\* the action of slot sl was submitted after the client had received a tick
\* and before it received anything else
ReactionToTick(sl) ==
    \E i \in 1..Len(delivered) :
       delivered[i].kind = "ClientTick" /\ delivered[i].ts = sl.submitted_at

\* C24: the loop cannot race ahead of the consumer.  While a ClientTick is
\* being sent the loop pops nothing: the queue, the item and the clock stand
\* still until the client has consumed the tick.  And an action the client
\* submits in reaction to a tick, before it consumes the next one, is drained
\* and queued before the loop dispatches any event with a later timestamp: no
\* item is dispatched while such an action, submitted at an earlier timestamp,
\* waits in the inbox.
C24_NoRaceAhead ==
    /\ [][pc = "send_client" => UNCHANGED <<pq, item, timestamp>>]_vars
    /\ [][DispatchStep =>
            \A i \in 1..Len(client_chan) :
               LET sl == slots[client_chan[i].slot]
               IN ReactionToTick(sl) => timestamp <= sl.submitted_at]_vars

\* C25: the account is stored in the registry under its own Account.uuid, so
\* that a trading action whose account_uuid is Account.uuid finds the account:
\* executing it never returns NoSuchAccount.
C25_AccountFound ==
    (/\ last_exec # None
     /\ "account_uuid" \in DOMAIN LastCall.action
     /\ \E k \in DOMAIN accounts : accounts[k].uuid = LastCall.action.account_uuid)
      => LastCall.res # Err("NoSuchAccount")

\* every open position has been executed by the loop's current timestamp
OpenExecuted ==
    \A id \in DOMAIN TheLedger.open_positions :
       LET pos == TheLedger.open_positions[id]
       IN IsSome(pos.execution_time) /\ Unwrap(pos.execution_time) <= timestamp

\* every closed position was closed no earlier than it was executed
ClosedAfterExecuted ==
    \A id \in DOMAIN TheLedger.closed_positions :
       LET pos == TheLedger.closed_positions[id]
       IN /\ IsSome(pos.exit_time)
          /\ IsSome(pos.execution_time)
          /\ Unwrap(pos.exit_time) >= Unwrap(pos.execution_time)

\* a tick about to be handed to tick_positions finds no open position on its
\* symbol that is executed only later
TickAfterExecution ==
    (pc = "drain" /\ item.unit.kind = "NewTick") =>
       \A id \in DOMAIN TheLedger.open_positions :
          LET pos == TheLedger.open_positions[id]
          IN pos.symbol_id = item.unit.symbol_ix =>
               Unwrap(pos.execution_time) <= item.unit.tick.timestamp

\* C26: in every reachable state every open position has execution_time <=
\* the loop's current timestamp and every closed position has exit_time >=
\* execution_time; a MarketOrder position, whose execution_time is now +
\* execution_delay_ns, is never evaluated or closed by a tick that arrives
\* before its execution_time.
C26_ExecutionTimes == OpenExecuted /\ ClosedAfterExecuted /\ TickAfterExecution

\* the ledgers tick_positions can have when its fill loop is over, for the
\* tick being processed
LedgersAfterFill ==
    {FillPendings(TheLedger, << >>, fo, 1, item.unit.tick.bid, item.unit.tick.ask,
                  timestamp).ledger :
        fo \in Orderings(SatisfiedPendings(TheLedger, item.unit.tick.bid,
                                           item.unit.tick.ask, item.unit.symbol_ix))}

\* C27: no assertion of is_open_satisfied or is_close_satisfied can fire:
\* whenever a tick is processed, every position tick_positions evaluates from
\* the pending map has no execution_price and has a price, and every position
\* it evaluates from the open map, one filled earlier in the same tick
\* included, has an execution_price and no exit_price.
C27_NoAssertFires ==
    [][TickStep =>
         /\ \A id \in DOMAIN TheLedger.pending_positions :
               LET pos == TheLedger.pending_positions[id]
               IN pos.execution_price = None /\ pos.price # None
         /\ \A L \in LedgersAfterFill :
               \A id \in DOMAIN L.open_positions :
                  LET pos == L.open_positions[id]
                  IN pos.execution_price # None /\ pos.exit_price = None]_vars

\* a tick has been processed that found a position opened by a MarketOrder
\* in the open map and filled a pending one, which it then evaluated as open
C27_Witness ==
    /\ pc = "pop"
    /\ item.unit.kind = "NewTick"
    /\ timestamp = item.timestamp
    /\ \E id \in DOMAIN TheLedger.open_positions :
          TheLedger.open_positions[id].creation_time > 0
    /\ \E i \in 1..Len(delivered) :
          /\ delivered[i].kind = "TickPush"
          /\ delivered[i].type = "PositionOpened"
          /\ delivered[i].ts = timestamp
          /\ delivered[i].position_id \in DOMAIN TheLedger.open_positions

====
